---- MODULE Spec2Model ----
(***************************************************************************)
(* Model of the bootz bootstrap service (server/service/service.go): the   *)
(* Service type with its mutex-guarded ledger (connectedChassis,           *)
(* activeBoots, failedRequest) and its operations GetBootstrapData,        *)
(* ReportStatus, IsChassisConnected, ResetStatus and GetBootStatus, run    *)
(* by concurrent callers.  The EntityManager behind the Service is the     *)
(* in-memory inventory manager: its production file is not part of the     *)
(* sources at hand, so its four operations follow the written contract     *)
(* and the expectations of its test file.                                  *)
(***************************************************************************)
EXTENDS Integers, Sequences, FiniteSets, TLC

(***************************************************************************)
(* Bounds of the model.                                                    *)
(***************************************************************************)
NumProcs == 2
MaxReqs == 2
MaxCards == 2
MaxStates == 2
MaxHistory == 2

Procs == 1..NumProcs

(***************************************************************************)
(* Values.                                                                 *)
(***************************************************************************)
Manufacturers == {"Cisco", "Acme"}
ChassisSerials == {"123", "456"}
CardSerials == {"123A", "123B", "999"}
Nonces == {"", "N1"}

SECURE == "BOOT_MODE_SECURE"
INSECURE == "BOOT_MODE_INSECURE"
UNSPECIFIED == "CONTROL_CARD_STATUS_UNSPECIFIED"
NOT_INITIALIZED == "CONTROL_CARD_STATUS_NOT_INITIALIZED"
INITIALIZED == "CONTROL_CARD_STATUS_INITIALIZED"
ReportedStatuses == {NOT_INITIALIZED, INITIALIZED}

\* error values: NoErr is Go's nil error, the others name the kind of error
NoErr == "nil"
InvalidArgument == "InvalidArgument"
NotFound == "NotFound"
Internal == "Internal"
ErrList == "errlist"
Panic == "panic"

\* time.Now().UnixMilli(): a non-zero clock reading
TimeNow == 1

EntityLookup(m, s) == [Manufacturer |-> m, SerialNumber |-> s]

\* a nil *bpb.BootstrapDataResponse and a non-nil one
NilResponse == [nil |-> TRUE, SerialNum |-> "", IntendedImage |-> "", BootPasswordHash |-> ""]
BootstrapDataResponse(serial, image, hash) ==
    [nil |-> FALSE, SerialNum |-> serial, IntendedImage |-> image, BootPasswordHash |-> hash]

\* a nil *bpb.GetBootstrapDataResponse
NilEnvelope ==
    [nil |-> TRUE, Responses |-> <<>>, Nonce |-> "", ResponseSignature |-> <<>>,
     OwnershipVoucher |-> "", OwnershipCertificate |-> ""]

SeqsUpTo(S, n) == UNION {[1..k -> S] : k \in 0..n}

(***************************************************************************)
(* The inventory of the in-memory EntityManager, as its tests build it:    *)
(* a map from EntityLookup to chassis.  Chassis {Cisco,123} is the tests'  *)
(* chassis; {Acme,456} is a secure-only chassis of another manufacturer    *)
(* that has a control card with the serial 123A as well.                   *)
(***************************************************************************)
\* base64 text and the bytes it stands for
Base64Encode(bytes) == <<"base64", bytes>>
Base64Decode(text) == text[2]

\* a control card with its Ownership Voucher on file, kept as base64 text
ControlCard(serial, ov) == [SerialNumber |-> serial, OwnershipVoucher |-> Base64Encode(ov)]

TestInventory ==
    (EntityLookup("Cisco", "123") :>
        [Manufacturer |-> "Cisco", SerialNumber |-> "123", BootMode |-> INSECURE,
         BootloaderPasswordHash |-> "ABCD123", SoftwareImage |-> "Default Image",
         ControllerCards |-> <<ControlCard("123A", "ov_123A"), ControlCard("123B", "ov_123B")>>])
    @@
    (EntityLookup("Acme", "456") :>
        [Manufacturer |-> "Acme", SerialNumber |-> "456", BootMode |-> SECURE,
         BootloaderPasswordHash |-> "EFGH456", SoftwareImage |-> "Acme Image",
         ControllerCards |-> <<ControlCard("123A", "ov_acme_123A")>>])

OCCert == "oc_pub.pem"
OCKey == "oc_priv.pem"

(***************************************************************************)
(* The in-memory EntityManager (interface at service.go:84-90).            *)
(***************************************************************************)
\* a nil *bpb.ControlCard
NoCard == "<nil>"

HasCard(ch, serial) ==
    \E k \in 1..Len(ch.ControllerCards) : ch.ControllerCards[k].SerialNumber = serial

\* the inventory keys of the chassis of manufacturer man that hold card serial
ByCard(inv, man, serial) ==
    {l \in DOMAIN inv : inv[l].Manufacturer = man /\ HasCard(inv[l], serial)}

\* the chassis a lookup addresses: by its key, else by a control card of the
\* same manufacturer; the empty set when there is none
lookupChassis(inv, lookup, ccSerial) ==
    IF lookup \in DOMAIN inv THEN {lookup} ELSE ByCard(inv, lookup.Manufacturer, ccSerial)

EM_ResolveChassis(inv, lookup, ccSerial) ==
    LET found == lookupChassis(inv, lookup, ccSerial) IN
    IF found = {} THEN [err |-> NotFound, BootMode |-> ""]
    ELSE [err |-> NoErr, BootMode |-> inv[CHOOSE l \in found : TRUE].BootMode]

\* EM_GetBootstrapData that finds a control card only in the chassis the
\* lookup names
EM_GetBootstrapData_ByKey(inv, lookup, card) ==
    IF lookup \in DOMAIN inv /\ (card = NoCard \/ HasCard(inv[lookup], card))
    THEN [err |-> NoErr,
          resp |-> BootstrapDataResponse(IF card = NoCard THEN lookup.SerialNumber ELSE card,
                                         inv[lookup].SoftwareImage,
                                         inv[lookup].BootloaderPasswordHash)]
    ELSE [err |-> NotFound, resp |-> NilResponse]

EM_GetBootstrapData(inv, lookup, card) ==
    IF card = NoCard
    THEN IF lookup \in DOMAIN inv
         THEN [err |-> NoErr,
               resp |-> BootstrapDataResponse(lookup.SerialNumber, inv[lookup].SoftwareImage,
                                              inv[lookup].BootloaderPasswordHash)]
         ELSE [err |-> NotFound, resp |-> NilResponse]
    ELSE LET found == ByCard(inv, lookup.Manufacturer, card) IN
         IF found = {} THEN [err |-> NotFound, resp |-> NilResponse]
         ELSE LET ch == inv[CHOOSE l \in found : TRUE] IN
              [err |-> NoErr,
               resp |-> BootstrapDataResponse(card, ch.SoftwareImage, ch.BootloaderPasswordHash)]

\* EM_SetStatus that looks at the first reported state only
EM_SetStatus_FirstOnly(inv, states) ==
    IF Len(states) = 0 THEN InvalidArgument
    ELSE IF \A l \in DOMAIN inv : ~HasCard(inv[l], states[1].SerialNumber)
         THEN NotFound
         ELSE NoErr

EM_SetStatus(inv, states) ==
    IF Len(states) = 0 THEN InvalidArgument
    ELSE IF \E k \in 1..Len(states) :
                \A l \in DOMAIN inv : ~HasCard(inv[l], states[k].SerialNumber)
         THEN NotFound
         ELSE NoErr

fetchOwnershipVoucher(inv, lookup, ccSerial) ==
    LET found == lookupChassis(inv, lookup, ccSerial) IN
    IF found = {} THEN [err |-> NotFound, ov |-> ""]
    ELSE LET cards == inv[CHOOSE l \in found : TRUE].ControllerCards
             hits == {k \in 1..Len(cards) : cards[k].SerialNumber = ccSerial} IN
         IF hits = {} THEN [err |-> NotFound, ov |-> ""]
         ELSE [err |-> NoErr, ov |-> cards[CHOOSE k \in hits : \A j \in hits : k <= j].OwnershipVoucher]

\* SignedPayload that leaves the nonce out of the signed bytes
SignedPayload_NoNonce(resp) == <<resp.Responses, "">>

\* the bytes the signature is computed over: the signed response with its nonce
SignedPayload(resp) == <<resp.Responses, resp.Nonce>>
\* the SHA-256 digest of some bytes
Sha256(bytes) == <<"sha256", bytes>>
\* the public half of an RSA private key
PublicKey(priv) == <<"public", priv>>
\* an RSA PKCS#1 v1.5 signature: it verifies with the public half of the key
\* that made it, over the digest it was made for
SignPKCS1v15(priv, hashed) == [key |-> priv, hashed |-> hashed]
VerifyPKCS1v15(pub, hashed, sig) == PublicKey(sig.key) = pub /\ sig.hashed = hashed

\* the signature field: the base64 text of the signature of the payload's digest
SignWith(key, payload) == Base64Encode(SignPKCS1v15(key, Sha256(payload)))

EM_Sign(inv, resp, lookup, ccSerial) ==
    IF resp.nil \/ Len(resp.Responses) = 0 THEN [err |-> InvalidArgument, resp |-> resp]
    ELSE LET signed == [resp EXCEPT !.ResponseSignature = SignWith(OCKey, SignedPayload(resp))]
             ov == fetchOwnershipVoucher(inv, lookup, ccSerial) IN
         IF ov.err # NoErr THEN [err |-> ov.err, resp |-> signed]
         ELSE [err |-> NoErr,
               resp |-> [signed EXCEPT !.OwnershipVoucher = Base64Decode(ov.ov),
                                       !.OwnershipCertificate = OCCert]]

(***************************************************************************)
(* The security artifacts read at startup (part_000:78-157).                *)
(***************************************************************************)
IOError == "IOError"
TLSError == "TLSError"

KeypairNames == {"oc", "pdc", "vendorca"}
\* line 81 and line 85: {name}_pub.pem and {name}_priv.pem
PubFile(name) ==
    CASE name = "oc" -> "oc_pub.pem" [] name = "pdc" -> "pdc_pub.pem"
      [] name = "vendorca" -> "vendorca_pub.pem"
PrivFile(name) ==
    CASE name = "oc" -> "oc_priv.pem" [] name = "pdc" -> "pdc_priv.pem"
      [] name = "vendorca" -> "vendorca_priv.pem"

PemFiles == {PubFile(n) : n \in KeypairNames} \cup {PrivFile(n) : n \in KeypairNames}
OVFiles == {"ov_123A.txt", "ov_123B.txt"}
\* line 103: strings.HasPrefix(f.Name(), "ov")
HasPrefixOv(file) == file \in OVFiles
\* lines 108-109: the file name without the prefix ov_ and the suffix .txt
TrimmedName(file) == CASE file = "ov_123A.txt" -> "123A" [] file = "ov_123B.txt" -> "123B"

\* the artifact directories the server may be started on: whether the directory
\* can be listed, and of every file whether it is absent, cannot be read,
\* or can be read and then holds PEM data or something else
ArtifactDirs ==
    {d \in [listable : BOOLEAN,
            files : [PemFiles \cup OVFiles -> {"absent", "unreadable", "pem", "garbage"}]] :
        /\ \A f \in PemFiles \ {"pdc_pub.pem", "pdc_priv.pem"} : d.files[f] \in {"absent", "pem"}
        /\ \A f \in {"pdc_pub.pem", "pdc_priv.pem"} : d.files[f] # "unreadable"
        /\ \A f \in OVFiles : d.files[f] # "pem"}

\* os.ReadFile: the bytes of a file are its name and the kind of data it holds
ReadFile(dir, file) ==
    IF dir.files[file] \in {"absent", "unreadable"}
    THEN [err |-> IOError, data |-> <<>>]
    ELSE [err |-> NoErr, data |-> <<file, dir.files[file]>>]

NilKeyPair == [nil |-> TRUE, Cert |-> <<>>, Key |-> <<>>]

\* lines 80-93
readKeypair(dir, name) ==
    LET cert == ReadFile(dir, PubFile(name))
        key == ReadFile(dir, PrivFile(name)) IN
    IF cert.err # NoErr THEN [err |-> IOError, pair |-> NilKeyPair]
    ELSE IF key.err # NoErr THEN [err |-> IOError, pair |-> NilKeyPair]
    ELSE [err |-> NoErr, pair |-> [nil |-> FALSE, Cert |-> cert.data, Key |-> key.data]]

\* NoOVs of a readOVs that accepts an empty list
NoOVs_Accepted(ovs) == FALSE

\* line 113: len(ovs) == 0
NoOVs(ovs) == DOMAIN ovs = {}

\* lines 96-117: every listed file whose name begins with ov is read and kept
\* under its trimmed name
readOVs(dir) ==
    LET listed == {f \in OVFiles : dir.files[f] # "absent" /\ HasPrefixOv(f)}
        ovs == [k \in {TrimmedName(f) : f \in listed} |->
                   ReadFile(dir, CHOOSE f \in listed : TrimmedName(f) = k).data] IN
    IF ~dir.listable THEN [err |-> IOError, ovs |-> <<>>]
    ELSE IF \E f \in listed : ReadFile(dir, f).err # NoErr THEN [err |-> IOError, ovs |-> <<>>]
    ELSE IF NoOVs(ovs) THEN [err |-> IOError, ovs |-> <<>>]
    ELSE [err |-> NoErr, ovs |-> ovs]

\* lines 120-126: tls.X509KeyPair accepts a certificate and a key in PEM
generateServerTLSCert(pdc) ==
    IF pdc.Cert[2] = "pem" /\ pdc.Key[2] = "pem"
    THEN [err |-> NoErr, cert |-> [nil |-> FALSE, Certificate |-> pdc.Cert, PrivateKey |-> pdc.Key]]
    ELSE [err |-> TLSError, cert |-> [nil |-> TRUE, Certificate |-> <<>>, PrivateKey |-> <<>>]]

\* a nil *service.SecurityArtifacts
NilArtifacts ==
    [nil |-> TRUE, OC |-> NilKeyPair, PDC |-> NilKeyPair, VendorCA |-> NilKeyPair,
     OV |-> <<>>, TLSKeypair |-> [nil |-> TRUE, Certificate |-> <<>>, PrivateKey |-> <<>>]]

\* lines 129-157
parseSecurityArtifacts(dir) ==
    LET oc == readKeypair(dir, "oc")
        pdc == readKeypair(dir, "pdc")
        vendorCA == readKeypair(dir, "vendorca")
        ovs == readOVs(dir)
        tlsCert == generateServerTLSCert(pdc.pair) IN
    IF oc.err # NoErr THEN [err |-> oc.err, artifacts |-> NilArtifacts]
    ELSE IF pdc.err # NoErr THEN [err |-> pdc.err, artifacts |-> NilArtifacts]
    ELSE IF vendorCA.err # NoErr THEN [err |-> vendorCA.err, artifacts |-> NilArtifacts]
    ELSE IF ovs.err # NoErr THEN [err |-> ovs.err, artifacts |-> NilArtifacts]
    ELSE IF tlsCert.err # NoErr THEN [err |-> tlsCert.err, artifacts |-> NilArtifacts]
    ELSE [err |-> NoErr,
          artifacts |-> [nil |-> FALSE, OC |-> oc.pair, PDC |-> pdc.pair,
                         VendorCA |-> vendorCA.pair, OV |-> ovs.ovs, TLSKeypair |-> tlsCert.cert]]

(***************************************************************************)
(* The server object of main (part_000:51-64) and the host it runs on.     *)
(***************************************************************************)
\* the zero value ServerConfig{}
ZeroConfig == [DhcpIntf |-> "", ArtifactDirectory |-> "", InventoryConfig |-> ""]

\* a nil *grpc.Server and a nil net.Listener
NilServ == [nil |-> TRUE, stopped |-> FALSE]
NilLis == [nil |-> TRUE, addr |-> ""]

\* s := server{} (part_000:296)
ZeroServer ==
    [serv |-> NilServ, lis |-> NilLis, status |-> "", lock |-> FALSE, config |-> ZeroConfig]

\* the inventory file of the -inv_config flag (part_000:48)
InventoryFile == "../testdata/inventory_local.prototxt"

\* ../testdata/ as the repository ships it: the three keypairs and the
\* vouchers of both control cards
TestdataDir ==
    [listable |-> TRUE,
     files |-> [f \in PemFiles \cup OVFiles |-> IF f \in PemFiles THEN "pem" ELSE "garbage"]]

\* the host before the server starts: no address is listened on
InitialHost ==
    [listening |-> {}, artifactDir |-> TestdataDir, inventoryFiles |-> {InventoryFile}]

VARIABLES
    chassisInventory,   \* EntityManager: map EntityLookup -> chassis
    mu,                 \* Service.mu: TRUE when the mutex is locked
    connectedChassis,   \* Service.connectedChassis: the keys mapped to true
    activeBoots,        \* Service.activeBoots: serial -> bootLog
    failedRequest,      \* Service.failedRequest: request -> error
    pc,                 \* where each caller stands in its operation
    frame,              \* the locals of each caller's operation
    reqSeq,             \* number of request objects allocated so far
    fault,              \* TRUE once a caller has panicked
    server,             \* main's server object: serv, lis, status, lock, config
    host,               \* the addresses listened on and the files on disk
    lastStart           \* history: the arguments of the last Start that succeeded

vars == <<chassisInventory, mu, connectedChassis, activeBoots, failedRequest,
          pc, frame, reqSeq, fault, server, host, lastStart>>

ledger == [connectedChassis |-> connectedChassis, activeBoots |-> activeBoots,
           failedRequest |-> failedRequest]

(***************************************************************************)
(* Requests, boot logs and the locals of an operation.                     *)
(***************************************************************************)
\* a *bpb.GetBootstrapDataRequest; id stands for the identity of the object
NoRequest ==
    [id |-> 0, Manufacturer |-> "", SerialNumber |-> "", ControlCards |-> <<>>,
     Nonce |-> "", ControlCardState |-> ""]

\* the zero value bootLog{} (service.go:73-82); BootRequest is the identity of
\* the request the pointer leads to, 0 for a nil request
ZeroBootLog ==
    [BootMode |-> "BOOT_MODE_UNSPECIFIED", StartTimeStamp |-> 0, EndTimeStamp |-> 0,
     Status |-> <<>>, LastStatus |-> UNSPECIFIED, BootResponse |-> NilResponse,
     BootRequest |-> 0, Err |-> NoErr]

\* the requests a caller may send; the control card state (the serial of the
\* requesting card) is read only when there is a nonce
Requests(id) ==
    {r \in [id : {id}, Manufacturer : Manufacturers, SerialNumber : ChassisSerials,
            ControlCards : SeqsUpTo(CardSerials, MaxCards), Nonce : Nonces,
            ControlCardState : {"", "123A"}] :
        r.Nonce = "" => r.ControlCardState = ""}

\* the reported states name a card of the inventory or a serial unknown to it
ControlCardStates == [SerialNumber : {"123A", "999"}, Status : ReportedStatuses]
Reports == SeqsUpTo(ControlCardStates, MaxStates)

\* what an operation returns: its error, and of the results the one it has
\* (the response of GetBootstrapData, empty for ReportStatus's non-nil
\* EmptyResponse, the answer of IsChassisConnected, the log of GetBootStatus)
NoReturn ==
    [err |-> NoErr, env |-> NilEnvelope, empty |-> FALSE, connected |-> FALSE,
     log |-> ZeroBootLog]

IdleFrame ==
    [op |-> "", req |-> NoRequest, states |-> <<>>, chassis |-> EntityLookup("", ""),
     serial |-> "", i |-> 0, fixedChasis |-> FALSE, ccSerial |-> "", BootMode |-> "",
     errs |-> <<>>, responses |-> <<>>, emLog |-> <<>>, ret |-> NoReturn,
     pre |-> [connectedChassis |-> {}, activeBoots |-> <<>>, failedRequest |-> <<>>]]

\* MapSet into a map that keeps no other entry
MapSet_Fresh(m, k, v) == (k :> v)

\* m[k] = v in a Go map
MapSet(m, k, v) == (k :> v) @@ m

Init ==
    /\ chassisInventory = TestInventory
    /\ mu = FALSE
    /\ connectedChassis = {}
    /\ activeBoots = <<>>
    /\ failedRequest = <<>>
    /\ pc = [p \in Procs |-> "idle"]
    /\ frame = [p \in Procs |-> IdleFrame]
    /\ reqSeq = 0
    /\ fault = FALSE
    /\ server = ZeroServer
    /\ host = InitialHost
    /\ lastStart = [addr |-> "", config |-> ZeroConfig]

(***************************************************************************)
(* s.mu.Lock() on entry and the deferred s.mu.Unlock() on return.          *)
(***************************************************************************)
\* MuAvailable of a Lock that never waits
MuAvailable_Always == TRUE

\* s.mu.Lock() returns only when the mutex is free
MuAvailable == ~mu

\* Lock blocks while the mutex is held and then takes it; the caller's locals
\* start as f, with the ledger it finds kept in f.pre
Lock(p, f, to) ==
    /\ pc[p] = "idle"
    /\ ~fault
    /\ MuAvailable
    /\ mu' = TRUE
    /\ pc' = [pc EXCEPT ![p] = to]
    /\ frame' = [frame EXCEPT ![p] = [f EXCEPT !.pre = ledger]]

Unlock(p) ==
    /\ pc[p] = "unlock"
    /\ ~fault
    /\ mu' = FALSE
    /\ pc' = [pc EXCEPT ![p] = "idle"]
    /\ frame' = [frame EXCEPT ![p] = IdleFrame]
    /\ UNCHANGED <<server, host, lastStart, chassisInventory, connectedChassis, activeBoots, failedRequest, reqSeq, fault>>

\* return: the results are in place and the deferred Unlock is next
Return(p, f, r) ==
    /\ pc' = [pc EXCEPT ![p] = "unlock"]
    /\ frame' = [frame EXCEPT ![p] = [f EXCEPT !.ret = r]]

(***************************************************************************)
(* Service.GetBootstrapData (service.go:102-195).                          *)
(***************************************************************************)
EMCall(fn, lookup, card) == [fn |-> fn, lookup |-> lookup, card |-> card]

GBD_Lock(p) ==
    /\ reqSeq < MaxReqs
    /\ \E req \in Requests(reqSeq + 1) :
          Lock(p, [IdleFrame EXCEPT !.op = "GetBootstrapData", !.req = req], "gbd_validate")
    /\ reqSeq' = reqSeq + 1
    /\ UNCHANGED <<server, host, lastStart, chassisInventory, connectedChassis, activeBoots, failedRequest, fault>>

\* NoControlCards without the check: every request goes on to resolution
NoControlCards_Unchecked(req) == FALSE

\* line 110: the request lists no control card
NoControlCards(req) == Len(req.ControlCards) = 0

\* SecureOnlyRefused that lets a request without nonce through
SecureOnlyRefused_Never(mode, nonce) == FALSE

\* the boot-mode policy of line 133
SecureOnlyRefused(mode, nonce) == mode = SECURE /\ nonce = ""

\* ResolveFailed that lets an unresolved chassis through
ResolveFailed_Ignored(err) == FALSE

\* line 125: the error check after s.em.ResolveChassis
ResolveFailed(err) == err # NoErr

\* MarkConnected that forgets the chassis marked before
MarkConnected_Only(connected, lookup) == {lookup}

\* MarkConnected that leaves the chassis unmarked
MarkConnected_Skip(connected, lookup) == connected

\* line 130: s.connectedChassis[*lookup] = true
MarkConnected(connected, lookup) == connected \cup {lookup}

\* lines 108-135: the control card check, chassis resolution, the connected
\* mark and the boot-mode policy
GBD_Validate(p) ==
    /\ pc[p] = "gbd_validate"
    /\ ~fault
    /\ LET f == frame[p]
           req == f.req
           hasCards == Len(req.ControlCards) >= 1
           ccSerial == IF hasCards THEN req.ControlCards[1] ELSE ""
           lookup == EntityLookup(req.Manufacturer, req.SerialNumber)
           chassis == EM_ResolveChassis(chassisInventory, lookup, ccSerial)
           g == [f EXCEPT !.fixedChasis = ~hasCards, !.ccSerial = ccSerial,
                          !.chassis = lookup, !.BootMode = chassis.BootMode,
                          !.emLog = Append(@, EMCall("ResolveChassis", lookup, ccSerial))]
       IN
       IF NoControlCards(req)
       THEN /\ failedRequest' = MapSet(failedRequest, req.id, InvalidArgument)
            /\ Return(p, [f EXCEPT !.fixedChasis = TRUE],
                      [NoReturn EXCEPT !.err = InvalidArgument])
            /\ UNCHANGED <<connectedChassis>>
       ELSE IF ResolveFailed(chassis.err)
            THEN /\ failedRequest' = MapSet(failedRequest, req.id, InvalidArgument)
                 /\ Return(p, g, [NoReturn EXCEPT !.err = InvalidArgument])
                 /\ UNCHANGED <<connectedChassis>>
            ELSE /\ connectedChassis' = MarkConnected(connectedChassis, lookup)
                 /\ UNCHANGED failedRequest
                 /\ IF SecureOnlyRefused(chassis.BootMode, req.Nonce)
                    THEN Return(p, g, [NoReturn EXCEPT !.err = InvalidArgument])
                    ELSE /\ pc' = [pc EXCEPT ![p] = "gbd_cards"]
                         /\ frame' = [frame EXCEPT ![p] = [g EXCEPT !.i = 1]]
    /\ UNCHANGED <<server, host, lastStart, chassisInventory, mu, activeBoots, reqSeq, fault>>

\* NewBootLog that leaves the request off the boot log
NewBootLog_NoRequest(mode, req) ==
    [ZeroBootLog EXCEPT !.BootMode = mode, !.StartTimeStamp = TimeNow]

\* lines 145-150: the boot log a listed card starts with
NewBootLog(mode, req) ==
    [ZeroBootLog EXCEPT !.BootMode = mode, !.StartTimeStamp = TimeNow,
                        !.BootRequest = req.id, !.LastStatus = UNSPECIFIED]

\* RecordFetch that leaves the error of a failed fetch off the boot log
RecordFetch_NoErr(log, bootdata) == [log EXCEPT !.BootResponse = bootdata.resp]

\* lines 152-157: what a card's fetch leaves on its boot log
RecordFetch(log, bootdata) ==
    [log EXCEPT !.Err = IF bootdata.err # NoErr THEN bootdata.err ELSE @,
                !.BootResponse = bootdata.resp]

\* Collect that puts the newest response first
Collect_Front(responses, bootdata) == <<bootdata.resp>> \o responses

\* lines 158 and 166: responses = append(responses, bootdata)
Collect(responses, bootdata) == Append(responses, bootdata.resp)

\* CardsDone of a loop that stops at the first failed card
CardsDone_FailFast(f) == f.i > Len(f.req.ControlCards) \/ f.errs # <<>>

\* line 144: the range loop ends after the last listed card
CardsDone(f) == f.i > Len(f.req.ControlCards)

\* lines 144-159: one iteration of the loop over the listed control cards
GBD_Card(p) ==
    /\ pc[p] = "gbd_cards"
    /\ ~fault
    /\ ~CardsDone(frame[p])
    /\ LET f == frame[p]
           v == f.req.ControlCards[f.i]
           bootdata == EM_GetBootstrapData(chassisInventory, f.chassis, v)
       IN
       /\ activeBoots' = MapSet(activeBoots, v, RecordFetch(NewBootLog(f.BootMode, f.req), bootdata))
       /\ frame' = [frame EXCEPT ![p] =
              [f EXCEPT !.i = @ + 1,
                        !.errs = IF bootdata.err # NoErr THEN Append(@, bootdata.err) ELSE @,
                        !.responses = Collect(@, bootdata),
                        !.emLog = Append(@, EMCall("GetBootstrapData", f.chassis, v))]]
    /\ UNCHANGED <<server, host, lastStart, chassisInventory, mu, connectedChassis, failedRequest, pc, reqSeq, fault>>

\* SigningSerial taken from the first card of the chassis descriptor instead
SigningSerial_FirstCard(req) == req.ControlCards[1]

\* line 188: the serial the response is signed for, the one of the request's
\* control card state
SigningSerial(req) == req.ControlCardState

\* NonceGiven of a service that signs every response
NonceGiven_Always(req) == TRUE

\* line 183: the response is signed if the request carries a nonce
NonceGiven(req) == req.Nonce # ""

\* SignFailed that passes a failed signing for a success
SignFailed_Ignored(err) == FALSE

\* line 188: the error check after s.em.Sign
SignFailed(err) == err # NoErr

\* lines 160-195: the fixed-chassis fetch, the aggregated error, the response
\* and its signature
GBD_Finish(p) ==
    /\ pc[p] = "gbd_cards"
    /\ ~fault
    /\ CardsDone(frame[p])
    /\ LET f == frame[p]
           req == f.req
           bootdata == EM_GetBootstrapData(chassisInventory, f.chassis, NoCard)
           g == IF f.fixedChasis
                THEN [f EXCEPT !.errs = IF bootdata.err # NoErr THEN Append(@, bootdata.err) ELSE @,
                               !.responses = Collect(@, bootdata),
                               !.emLog = Append(@, EMCall("GetBootstrapData", f.chassis, NoCard))]
                ELSE f
           resp == [NilEnvelope EXCEPT !.nil = FALSE, !.Responses = g.responses]
           withNonce == [resp EXCEPT !.Nonce = req.Nonce]
           signed == EM_Sign(chassisInventory, withNonce, f.chassis, SigningSerial(req))
           h == [g EXCEPT !.emLog = Append(@, EMCall("Sign", f.chassis, SigningSerial(req)))]
       IN
       IF g.errs # <<>>
       THEN Return(p, g, [NoReturn EXCEPT !.err = ErrList])
       ELSE IF NonceGiven(req)
            THEN IF SignFailed(signed.err)
                 THEN Return(p, h, [NoReturn EXCEPT !.err = Internal])
                 ELSE Return(p, h, [NoReturn EXCEPT !.env = signed.resp])
            ELSE Return(p, g, [NoReturn EXCEPT !.env = resp])
    /\ UNCHANGED <<server, host, lastStart, chassisInventory, mu, connectedChassis, activeBoots, failedRequest, reqSeq, fault>>

(***************************************************************************)
(* Service.ReportStatus (service.go:197-216).                              *)
(***************************************************************************)
\* the number of states of a report that name serial
CountFor(states, serial) == Cardinality({k \in 1..Len(states) : states[k].SerialNumber = serial})

\* the status histories stay within MaxHistory entries
HistoryFits(states) ==
    \A s \in DOMAIN activeBoots :
        Len(activeBoots[s].Status) + CountFor(states, s) <= MaxHistory

RS_Lock(p) ==
    /\ \E states \in Reports :
          /\ HistoryFits(states)
          /\ Lock(p, [IdleFrame EXCEPT !.op = "ReportStatus", !.states = states], "rs_setstatus")
    /\ UNCHANGED <<server, host, lastStart, chassisInventory, connectedChassis, activeBoots, failedRequest, reqSeq, fault>>

\* AppliesStates with the condition the other way round
AppliesStates_OnSuccess(err) == err = NoErr

\* line 204: the branch that applies the reported states
AppliesStates(err) == err # NoErr

\* lines 203-204 and 214: the SetStatus call and the return of its result
RS_SetStatus(p) ==
    /\ pc[p] = "rs_setstatus"
    /\ ~fault
    /\ LET f == frame[p]
           err == EM_SetStatus(chassisInventory, f.states)
           g == [f EXCEPT !.emLog = Append(@, EMCall("SetStatus", EntityLookup("", ""), ""))]
       IN
       IF AppliesStates(err)
       THEN /\ pc' = [pc EXCEPT ![p] = "rs_apply"]
            /\ frame' = [frame EXCEPT ![p] = [g EXCEPT !.i = 1]]
       ELSE Return(p, g, [NoReturn EXCEPT !.err = err])
    /\ UNCHANGED <<server, host, lastStart, chassisInventory, mu, connectedChassis, activeBoots, failedRequest, reqSeq, fault>>

\* ApplyState that leaves LastStatus as it was
ApplyState_NoLast(log, status) ==
    [log EXCEPT !.Status = Append(@, status),
                !.EndTimeStamp = IF status = INITIALIZED THEN TimeNow ELSE @]

\* ApplyState that never sets the end timestamp
ApplyState_NoEnd(log, status) ==
    [log EXCEPT !.LastStatus = status, !.Status = Append(@, status)]

\* lines 206-210: a reported state applied to the boot log of its serial
ApplyState(log, status) ==
    [log EXCEPT !.LastStatus = status,
                !.Status = Append(@, status),
                !.EndTimeStamp = IF status = INITIALIZED THEN TimeNow ELSE @]

\* lines 205-211: one iteration of the loop over the reported states; the
\* boot log of a serial that has none is a nil pointer, and writing through
\* it panics (the deferred Unlock runs as the panic unwinds)
RS_Apply(p) ==
    /\ pc[p] = "rs_apply"
    /\ ~fault
    /\ frame[p].i <= Len(frame[p].states)
    /\ LET f == frame[p]
           stat == f.states[f.i]
       IN
       IF stat.SerialNumber \in DOMAIN activeBoots
       THEN /\ activeBoots' = [activeBoots EXCEPT ![stat.SerialNumber] = ApplyState(@, stat.Status)]
            /\ frame' = [frame EXCEPT ![p].i = @ + 1]
            /\ UNCHANGED <<pc, mu, fault>>
       ELSE /\ fault' = TRUE
            /\ mu' = FALSE
            /\ pc' = [pc EXCEPT ![p] = "panicked"]
            /\ frame' = [frame EXCEPT ![p].ret = [NoReturn EXCEPT !.err = Panic]]
            /\ UNCHANGED activeBoots
    /\ UNCHANGED <<server, host, lastStart, chassisInventory, connectedChassis, failedRequest, reqSeq>>

\* line 212
RS_Return(p) ==
    /\ pc[p] = "rs_apply"
    /\ ~fault
    /\ frame[p].i > Len(frame[p].states)
    /\ Return(p, frame[p], [NoReturn EXCEPT !.empty = TRUE])
    /\ UNCHANGED <<server, host, lastStart, chassisInventory, mu, connectedChassis, activeBoots, failedRequest, reqSeq, fault>>

(***************************************************************************)
(* Service.IsChassisConnected, ResetStatus, GetBootStatus                  *)
(* (service.go:218-244).                                                   *)
(***************************************************************************)
Lookups == {EntityLookup(m, s) : m \in Manufacturers, s \in ChassisSerials}

ICC_Lock(p) ==
    /\ \E chassis \in Lookups :
          Lock(p, [IdleFrame EXCEPT !.op = "IsChassisConnected", !.chassis = chassis], "icc_read")
    /\ UNCHANGED <<server, host, lastStart, chassisInventory, connectedChassis, activeBoots, failedRequest, reqSeq, fault>>

\* line 222
ICC_Read(p) ==
    /\ pc[p] = "icc_read"
    /\ ~fault
    /\ Return(p, frame[p], [NoReturn EXCEPT !.connected = frame[p].chassis \in connectedChassis])
    /\ UNCHANGED <<server, host, lastStart, chassisInventory, mu, connectedChassis, activeBoots, failedRequest, reqSeq, fault>>

\* Reset_Lock of a ResetStatus that does not take the mutex
Reset_Lock_NoMutex(p) ==
    /\ pc[p] = "idle"
    /\ ~fault
    /\ pc' = [pc EXCEPT ![p] = "reset_connected"]
    /\ frame' = [frame EXCEPT ![p] = [IdleFrame EXCEPT !.op = "ResetStatus", !.pre = ledger]]
    /\ UNCHANGED <<server, host, lastStart, chassisInventory, mu, connectedChassis, activeBoots, failedRequest, reqSeq, fault>>

\* lines 228-229
Reset_Lock(p) ==
    /\ Lock(p, [IdleFrame EXCEPT !.op = "ResetStatus"], "reset_connected")
    /\ UNCHANGED <<server, host, lastStart, chassisInventory, connectedChassis, activeBoots, failedRequest, reqSeq, fault>>

\* line 230
Reset_Connected(p) ==
    /\ pc[p] = "reset_connected"
    /\ ~fault
    /\ connectedChassis' = {}
    /\ pc' = [pc EXCEPT ![p] = "reset_failed"]
    /\ UNCHANGED <<server, host, lastStart, chassisInventory, mu, activeBoots, failedRequest, frame, reqSeq, fault>>

\* line 231
Reset_Failed(p) ==
    /\ pc[p] = "reset_failed"
    /\ ~fault
    /\ failedRequest' = <<>>
    /\ pc' = [pc EXCEPT ![p] = "reset_boots"]
    /\ UNCHANGED <<server, host, lastStart, chassisInventory, mu, connectedChassis, activeBoots, frame, reqSeq, fault>>

\* line 232
Reset_Boots(p) ==
    /\ pc[p] = "reset_boots"
    /\ ~fault
    /\ activeBoots' = <<>>
    /\ Return(p, frame[p], NoReturn)
    /\ UNCHANGED <<server, host, lastStart, chassisInventory, mu, connectedChassis, failedRequest, reqSeq, fault>>

GBS_Lock(p) ==
    /\ \E serial \in CardSerials :
          Lock(p, [IdleFrame EXCEPT !.op = "GetBootStatus", !.serial = serial], "gbs_read")
    /\ UNCHANGED <<server, host, lastStart, chassisInventory, connectedChassis, activeBoots, failedRequest, reqSeq, fault>>

\* HasBootLog that finds no boot log at all
HasBootLog_Never(boots, serial) == FALSE

\* line 239: b, ok := s.activeBoots[serial]
HasBootLog(boots, serial) == serial \in DOMAIN boots

\* lines 239-243
GBS_Read(p) ==
    /\ pc[p] = "gbs_read"
    /\ ~fault
    /\ LET serial == frame[p].serial IN
       IF ~HasBootLog(activeBoots, serial)
       THEN Return(p, frame[p], [NoReturn EXCEPT !.err = NotFound])
       ELSE Return(p, frame[p], [NoReturn EXCEPT !.log = activeBoots[serial]])
    /\ UNCHANGED <<server, host, lastStart, chassisInventory, mu, connectedChassis, activeBoots, failedRequest, reqSeq, fault>>

Next ==
    \E p \in Procs :
        \/ GBD_Lock(p) \/ GBD_Validate(p) \/ GBD_Card(p) \/ GBD_Finish(p)
        \/ RS_Lock(p) \/ RS_SetStatus(p) \/ RS_Apply(p) \/ RS_Return(p)
        \/ ICC_Lock(p) \/ ICC_Read(p)
        \/ Reset_Lock(p) \/ Reset_Connected(p) \/ Reset_Failed(p) \/ Reset_Boots(p)
        \/ GBS_Lock(p) \/ GBS_Read(p)
        \/ Unlock(p)

Spec == Init /\ [][Next]_vars

(***************************************************************************)
(* Properties.  An operation has returned when its caller stands at        *)
(* "unlock": its results are in frame[p].ret, the ledger is as the call    *)
(* leaves it, and frame[p].pre is the ledger the call found.               *)
(***************************************************************************)
Returned(p, op) == pc[p] = "unlock" /\ frame[p].op = op

ReqLookup(req) == EntityLookup(req.Manufacturer, req.SerialNumber)
ReqResolves(req) ==
    /\ Len(req.ControlCards) >= 1
    /\ EM_ResolveChassis(chassisInventory, ReqLookup(req), req.ControlCards[1]).err = NoErr
ReqBootMode(req) ==
    EM_ResolveChassis(chassisInventory, ReqLookup(req), req.ControlCards[1]).BootMode
\* the request passes chassis resolution and the boot-mode policy
ReqReachesCards(req) ==
    /\ ReqResolves(req)
    /\ ~(ReqBootMode(req) = SECURE /\ req.Nonce = "")
CardFetch(req, v) == EM_GetBootstrapData(chassisInventory, ReqLookup(req), v)
CardResolves(req, v) == CardFetch(req, v).err = NoErr

\* C1: a GetBootstrapData request that lists zero control cards fails with
\* InvalidArgument, and the only change of the ledger is the failed-request
\* record of that request: connectedChassis and activeBoots are as before.
C1_EmptyCardsRejected ==
    \A p \in Procs :
        (Returned(p, "GetBootstrapData") /\ Len(frame[p].req.ControlCards) = 0) =>
            /\ frame[p].ret.err = InvalidArgument
            /\ frame[p].ret.env.nil
            /\ connectedChassis = frame[p].pre.connectedChassis
            /\ activeBoots = frame[p].pre.activeBoots
            /\ failedRequest = MapSet(frame[p].pre.failedRequest, frame[p].req.id, InvalidArgument)

\* a request without control cards for a chassis of the inventory has returned,
\* after an earlier request had left entries in the ledger
C1_Witness ==
    \E p \in Procs :
        /\ Returned(p, "GetBootstrapData")
        /\ Len(frame[p].req.ControlCards) = 0
        /\ ReqLookup(frame[p].req) \in DOMAIN chassisInventory
        /\ frame[p].pre.activeBoots # <<>>
        /\ frame[p].req.id \in DOMAIN failedRequest

\* C2: a GetBootstrapData request with an empty nonce whose chassis resolves
\* with BootMode SECURE fails with InvalidArgument and returns no bootstrap
\* data, whether or not its control cards exist in the inventory.
C2_SecureNeedsNonce ==
    \A p \in Procs :
        (/\ Returned(p, "GetBootstrapData")
         /\ frame[p].req.Nonce = ""
         /\ ReqResolves(frame[p].req)
         /\ ReqBootMode(frame[p].req) = SECURE) =>
            /\ frame[p].ret.err = InvalidArgument
            /\ frame[p].ret.env.nil

\* such a request has returned, one of its cards being unknown to the inventory
C2_Witness ==
    \E p \in Procs :
        /\ Returned(p, "GetBootstrapData")
        /\ frame[p].req.Nonce = ""
        /\ ReqResolves(frame[p].req)
        /\ ReqBootMode(frame[p].req) = SECURE
        /\ \E k \in 1..Len(frame[p].req.ControlCards) :
              ~CardResolves(frame[p].req, frame[p].req.ControlCards[k])
        /\ frame[p].ret.err = InvalidArgument

\* C3: when a request that passes chassis resolution and the boot-mode policy
\* lists several control cards of which some resolve and some do not, then
\* after the call every listed card has a boot log of this request: with the
\* response and no error for a card that resolved, with the error for a card
\* that did not; and the call returns an error and no response.
C3_PartialFailureLogged ==
    \A p \in Procs :
        LET req == frame[p].req
            cards == req.ControlCards IN
        (/\ Returned(p, "GetBootstrapData")
         /\ ReqReachesCards(req)
         /\ Len(cards) >= 2
         /\ \E k \in 1..Len(cards) : CardResolves(req, cards[k])
         /\ \E k \in 1..Len(cards) : ~CardResolves(req, cards[k])) =>
            /\ \A k \in 1..Len(cards) :
                  /\ cards[k] \in DOMAIN activeBoots
                  /\ activeBoots[cards[k]].BootRequest = req.id
                  /\ IF CardResolves(req, cards[k])
                     THEN /\ activeBoots[cards[k]].BootResponse = CardFetch(req, cards[k]).resp
                          /\ ~activeBoots[cards[k]].BootResponse.nil
                          /\ activeBoots[cards[k]].Err = NoErr
                     ELSE /\ activeBoots[cards[k]].Err # NoErr
                          /\ activeBoots[cards[k]].BootResponse.nil
            /\ frame[p].ret.err # NoErr
            /\ frame[p].ret.env.nil

\* a request listing an unknown card and then a card of the chassis has returned
C3_Witness ==
    \E p \in Procs :
        /\ Returned(p, "GetBootstrapData")
        /\ ReqReachesCards(frame[p].req)
        /\ frame[p].req.ControlCards = <<"999", "123A">>
        /\ activeBoots["999"].Err = NotFound
        /\ activeBoots["123A"].BootResponse.SerialNum = "123A"
        /\ frame[p].ret.err = ErrList

\* the calls of the EntityManager's GetBootstrapData for a control card
PerCardCalls(emLog) ==
    SelectSeq(emLog, LAMBDA c : c.fn = "GetBootstrapData" /\ c.card # NoCard)

\* C4: the EntityManager's GetBootstrapData is called once for every listed
\* control card, in request order, also after a card has failed; the
\* aggregated error is returned only after the last card has been attempted.
C4_EveryCardAttempted ==
    \A p \in Procs :
        LET req == frame[p].req IN
        (Returned(p, "GetBootstrapData") /\ ReqReachesCards(req)) =>
            PerCardCalls(frame[p].emLog) =
                [k \in 1..Len(req.ControlCards) |->
                    EMCall("GetBootstrapData", ReqLookup(req), req.ControlCards[k])]

\* the aggregated error has been returned for a request whose first card failed
\* and whose second card was fetched all the same
C4_Witness ==
    \E p \in Procs :
        /\ Returned(p, "GetBootstrapData")
        /\ frame[p].ret.err = ErrList
        /\ Len(frame[p].req.ControlCards) = 2
        /\ ~CardResolves(frame[p].req, frame[p].req.ControlCards[1])
        /\ Len(PerCardCalls(frame[p].emLog)) = 2

\* the request carries a nonce and addresses an inventory chassis by control
\* cards that all resolve and have an Ownership Voucher on file
C5_Addressed(req) ==
    /\ req.Nonce # ""
    /\ ReqResolves(req)
    /\ \A k \in 1..Len(req.ControlCards) :
          /\ CardResolves(req, req.ControlCards[k])
          /\ fetchOwnershipVoucher(chassisInventory, ReqLookup(req), req.ControlCards[k]).err = NoErr

\* C5 as claimed: such a request succeeds, and its response carries the nonce,
\* a signature and the on-file voucher of a control card of the chassis
\* descriptor.
C5_Original ==
    \A p \in Procs :
        LET req == frame[p].req
            ret == frame[p].ret IN
        (Returned(p, "GetBootstrapData") /\ C5_Addressed(req)) =>
            /\ ret.err = NoErr
            /\ ret.env.Nonce = req.Nonce
            /\ ret.env.ResponseSignature # <<>>
            /\ ret.env.OwnershipVoucher # ""
            /\ \E k \in 1..Len(req.ControlCards) :
                  ret.env.OwnershipVoucher =
                      Base64Decode(fetchOwnershipVoucher(chassisInventory, ReqLookup(req),
                                                         req.ControlCards[k]).ov)

\* C5 (amended): when moreover the control card state of the request names a
\* serial that has a voucher on file, the request succeeds, and its response
\* carries the nonce, a signature over the responses and the nonce, and the
\* on-file voucher of the serial named in the control card state.
C5_VoucherOfRequestingCard ==
    \A p \in Procs :
        LET req == frame[p].req
            ret == frame[p].ret
            ov == fetchOwnershipVoucher(chassisInventory, ReqLookup(req), req.ControlCardState) IN
        (Returned(p, "GetBootstrapData") /\ C5_Addressed(req) /\ ov.err = NoErr) =>
            /\ ret.err = NoErr
            /\ ~ret.env.nil
            /\ ret.env.Nonce = req.Nonce
            /\ ret.env.ResponseSignature = SignWith(OCKey, <<ret.env.Responses, req.Nonce>>)
            /\ ret.env.OwnershipVoucher # ""
            /\ ret.env.OwnershipVoucher = Base64Decode(ov.ov)

\* a signed response has been returned whose voucher is the one of the card
\* named in the control card state, which is not a card of the descriptor
C5_Witness ==
    \E p \in Procs :
        /\ Returned(p, "GetBootstrapData")
        /\ C5_Addressed(frame[p].req)
        /\ frame[p].req.ControlCards = <<"123B">>
        /\ frame[p].req.ControlCardState = "123A"
        /\ frame[p].ret.err = NoErr
        /\ frame[p].ret.env.Nonce = "N1"
        /\ frame[p].ret.env.OwnershipVoucher = "ov_123A"

\* the control card serials the EntityManager knows
KnownToEM(serial) == \E l \in DOMAIN chassisInventory : HasCard(chassisInventory[l], serial)

\* the status of the last state of a report that names serial
LastReported(states, serial) ==
    LET ks == {k \in 1..Len(states) : states[k].SerialNumber = serial} IN
    states[CHOOSE k \in ks : \A j \in ks : j <= k].Status

\* C6: once GetBootstrapData has created the boot log of a control card S the
\* EntityManager knows, a ReportStatus with the state (S, INITIALIZED) leaves
\* that boot log, which is what GetBootStatus(S) returns, with LastStatus
\* INITIALIZED and a non-zero EndTimeStamp.
C6_InitializedReported ==
    \A p \in Procs : \A S \in CardSerials :
        (/\ Returned(p, "ReportStatus")
         /\ S \in DOMAIN frame[p].pre.activeBoots
         /\ KnownToEM(S)
         /\ CountFor(frame[p].states, S) > 0
         /\ LastReported(frame[p].states, S) = INITIALIZED) =>
            /\ S \in DOMAIN activeBoots
            /\ activeBoots[S].LastStatus = INITIALIZED
            /\ activeBoots[S].EndTimeStamp # 0

RECURSIVE ApplyAll(_, _)
ApplyAll(boots, states) ==
    IF states = <<>> THEN boots
    ELSE ApplyAll([boots EXCEPT ![Head(states).SerialNumber] = ApplyState(@, Head(states).Status)],
                  Tail(states))

\* C8: when SetStatus returns an error, ReportStatus applies every reported
\* state, in report order, to the boot log of its serial and returns success.
C8_ErrorAppliesStates ==
    \A p \in Procs :
        (/\ frame[p].op = "ReportStatus"
         /\ pc[p] \in {"unlock", "panicked"}
         /\ EM_SetStatus(chassisInventory, frame[p].states) # NoErr) =>
            /\ pc[p] = "unlock"
            /\ frame[p].ret.err = NoErr
            /\ frame[p].ret.empty
            /\ activeBoots = ApplyAll(frame[p].pre.activeBoots, frame[p].states)

\* a caller is inside an operation, between its Lock and its deferred Unlock
InCS(p) == pc[p] \notin {"idle", "panicked"}

\* C9: at most one operation is inside its critical section at any time, and
\* the mutex is held for as long as it is, through the EntityManager calls
\* and the signing.
C9_MutualExclusion ==
    /\ \A p, q \in Procs : (InCS(p) /\ InCS(q)) => p = q
    /\ \A p \in Procs : InCS(p) => mu

\* a GetBootstrapData is between two per-card fetches, after another operation
\* has completed and left a boot log
C9_Witness ==
    \E p \in Procs :
        /\ pc[p] = "gbd_cards"
        /\ frame[p].i = 2
        /\ Len(frame[p].req.ControlCards) = 2
        /\ frame[p].pre.activeBoots # <<>>
        /\ mu

\* ResetStatus has cleared some of the three maps and not yet all of them
MidReset(p) == pc[p] \in {"reset_failed", "reset_boots"}

\* C10: while ResetStatus is between the clearing of its first and of its last
\* map, no other operation is inside its critical section: none observes the
\* ledger partly cleared.
C10_ResetAtomic ==
    \A p \in Procs : MidReset(p) => \A q \in Procs \ {p} : ~InCS(q)

\* ResetStatus has cleared connectedChassis while activeBoots still holds the
\* entries it found
C10_Witness ==
    \E p \in Procs :
        /\ pc[p] = "reset_failed"
        /\ frame[p].pre.connectedChassis # {}
        /\ connectedChassis = {}
        /\ activeBoots # <<>>
        /\ activeBoots = frame[p].pre.activeBoots

\* the step of ResetStatus that clears connectedChassis (line 230)
ResetClears == \E p \in Procs : pc[p] = "reset_connected" /\ pc'[p] = "reset_failed"

\* the step of a GetBootstrapData for L in which the chassis resolves (line 130)
ResolvesFor(L) ==
    \E p \in Procs :
        /\ pc[p] = "gbd_validate" /\ pc'[p] # "gbd_validate"
        /\ ReqLookup(frame[p].req) = L
        /\ ReqResolves(frame[p].req)

\* C11: for every EntityLookup L, when a GetBootstrapData for L has returned
\* successfully L is connected; IsChassisConnected(L) answers whether L is
\* connected; a connected L stays connected through every step but the
\* clearing step of ResetStatus, after which no chassis is connected; and an
\* L that is not connected stays so through every step but a GetBootstrapData
\* for L whose chassis resolves.
C11_ConnectedUntilReset ==
    /\ [](\A p \in Procs :
            /\ (Returned(p, "GetBootstrapData") /\ frame[p].ret.err = NoErr) =>
                   ReqLookup(frame[p].req) \in connectedChassis
            /\ Returned(p, "IsChassisConnected") =>
                   frame[p].ret.connected = (frame[p].chassis \in connectedChassis)
            /\ Returned(p, "ResetStatus") => connectedChassis = {})
    /\ [][\A L \in Lookups :
            /\ (L \in connectedChassis /\ L \notin connectedChassis') =>
                   (ResetClears /\ connectedChassis' = {})
            /\ (L \notin connectedChassis /\ L \in connectedChassis') => ResolvesFor(L)]_vars

\* IsChassisConnected has answered true for the chassis of a request that has
\* succeeded, the second request of the run
C11_Witness ==
    \E p \in Procs :
        /\ Returned(p, "IsChassisConnected")
        /\ frame[p].chassis = EntityLookup("Cisco", "123")
        /\ frame[p].ret.connected
        /\ "123A" \in DOMAIN activeBoots
        /\ activeBoots["123A"].BootRequest = MaxReqs
        /\ activeBoots["123A"].Err = NoErr

\* C12: in every state, the EndTimeStamp of every boot log is non-zero exactly
\* when INITIALIZED occurs in the status history of that boot log.
C12_EndIffInitialized ==
    \A s \in DOMAIN activeBoots :
        (activeBoots[s].EndTimeStamp # 0) <=>
            (\E k \in 1..Len(activeBoots[s].Status) : activeBoots[s].Status[k] = INITIALIZED)

\* one boot log has been reported INITIALIZED and has its end timestamp, while
\* another has only been reported NOT_INITIALIZED and has none
C12_Witness ==
    \E s, t \in DOMAIN activeBoots :
        /\ activeBoots[s].Status = <<INITIALIZED>>
        /\ activeBoots[s].EndTimeStamp = TimeNow
        /\ activeBoots[t].Status = <<NOT_INITIALIZED>>
        /\ activeBoots[t].EndTimeStamp = 0

\* the step of ResetStatus that clears activeBoots (line 232)
ResetClearsBoots == \E p \in Procs : pc[p] = "reset_boots" /\ pc'[p] = "unlock"

\* C13: a serial that has a boot log keeps one through every step but the
\* clearing step of ResetStatus; so when a GetBootstrapData, a ReportStatus, an
\* IsChassisConnected or a GetBootStatus has returned or panicked, every serial
\* that had a boot log when the call began still has one.
C13_OnlyResetRemoves ==
    /\ [](\A p \in Procs :
            (pc[p] \in {"unlock", "panicked"} /\ frame[p].op # "ResetStatus") =>
                DOMAIN frame[p].pre.activeBoots \subseteq DOMAIN activeBoots)
    /\ [][\A s \in CardSerials :
            (s \in DOMAIN activeBoots /\ s \notin DOMAIN activeBoots') => ResetClearsBoots]_vars

\* a GetBootstrapData for one card has returned and the boot log another card
\* had before the call is still there
C13_Witness ==
    \E p \in Procs :
        /\ Returned(p, "GetBootstrapData")
        /\ frame[p].req.ControlCards = <<"123B">>
        /\ DOMAIN frame[p].pre.activeBoots = {"123A"}
        /\ DOMAIN activeBoots = {"123A", "123B"}
        /\ activeBoots["123A"] = frame[p].pre.activeBoots["123A"]

\* C14: the response of a successful GetBootstrapData holds one response per
\* listed control card, in request order: the i-th is the EntityManager's
\* result for the i-th card and carries that card's serial; there is no
\* further, chassis-level response.
C14_OneResponsePerCard ==
    \A p \in Procs :
        LET req == frame[p].req
            env == frame[p].ret.env IN
        (Returned(p, "GetBootstrapData") /\ frame[p].ret.err = NoErr) =>
            /\ ~env.nil
            /\ Len(env.Responses) = Len(req.ControlCards)
            /\ \A k \in 1..Len(req.ControlCards) :
                  /\ env.Responses[k] = CardFetch(req, req.ControlCards[k]).resp
                  /\ env.Responses[k].SerialNum = req.ControlCards[k]

\* the request for chassis {Cisco, 123} with cards 123A and 123B and no nonce
\* has returned its two responses
C14_Witness ==
    \E p \in Procs :
        /\ Returned(p, "GetBootstrapData")
        /\ frame[p].ret.err = NoErr
        /\ ReqLookup(frame[p].req) = EntityLookup("Cisco", "123")
        /\ frame[p].req.ControlCards = <<"123A", "123B">>
        /\ frame[p].req.Nonce = ""
        /\ Len(frame[p].ret.env.Responses) = 2
        /\ frame[p].ret.env.Responses[2].SerialNum = "123B"

\* the calls of the EntityManager's Sign
SignCalls(emLog) == SelectSeq(emLog, LAMBDA c : c.fn = "Sign")

\* every listed control card has been fetched, and with success
AllCardsFetched(req) ==
    /\ ReqReachesCards(req)
    /\ \A k \in 1..Len(req.ControlCards) : CardResolves(req, req.ControlCards[k])

\* C15: a GetBootstrapData that has returned has called the EntityManager's
\* Sign, once, exactly when the request carries a nonce and the fetch of every
\* listed control card has been made and has succeeded; and a successful
\* response to a request without nonce has an empty nonce, an empty signature
\* and no ownership artifacts.
C15_SignIffNonce ==
    \A p \in Procs :
        LET req == frame[p].req
            env == frame[p].ret.env IN
        Returned(p, "GetBootstrapData") =>
            /\ (SignCalls(frame[p].emLog) # <<>>) <=> (req.Nonce # "" /\ AllCardsFetched(req))
            /\ Len(SignCalls(frame[p].emLog)) <= 1
            /\ (frame[p].ret.err = NoErr /\ req.Nonce = "") =>
                   /\ env.Nonce = ""
                   /\ env.ResponseSignature = <<>>
                   /\ env.OwnershipVoucher = ""
                   /\ env.OwnershipCertificate = ""

\* a request with a nonce for two cards has returned signed, Sign having been
\* called once, for the serial of the control card state
C15_Witness ==
    \E p \in Procs :
        /\ Returned(p, "GetBootstrapData")
        /\ frame[p].req.Nonce = "N1"
        /\ Len(frame[p].req.ControlCards) = 2
        /\ AllCardsFetched(frame[p].req)
        /\ SignCalls(frame[p].emLog) =
               <<EMCall("Sign", ReqLookup(frame[p].req), frame[p].req.ControlCardState)>>
        /\ frame[p].ret.err = NoErr
        /\ frame[p].ret.env.ResponseSignature # <<>>

\* C16: when ResolveChassis fails for a request that lists at least one
\* control card, GetBootstrapData returns InvalidArgument and no response, and
\* the only change of the ledger is the failed-request record of that
\* request: connectedChassis and activeBoots are as the call found them.
C16_ResolveFailureRecorded ==
    \A p \in Procs :
        LET req == frame[p].req IN
        (/\ Returned(p, "GetBootstrapData")
         /\ Len(req.ControlCards) >= 1
         /\ ~ReqResolves(req)) =>
            /\ frame[p].ret.err = InvalidArgument
            /\ frame[p].ret.env.nil
            /\ connectedChassis = frame[p].pre.connectedChassis
            /\ activeBoots = frame[p].pre.activeBoots
            /\ failedRequest = MapSet(frame[p].pre.failedRequest, req.id, InvalidArgument)

\* a request whose chassis does not resolve has returned, after an earlier
\* request had connected a chassis and left boot logs
C16_Witness ==
    \E p \in Procs :
        /\ Returned(p, "GetBootstrapData")
        /\ Len(frame[p].req.ControlCards) >= 1
        /\ ~ReqResolves(frame[p].req)
        /\ ReqLookup(frame[p].req) \notin connectedChassis
        /\ frame[p].pre.connectedChassis # {}
        /\ frame[p].pre.activeBoots # <<>>
        /\ frame[p].req.ControlCards[1] \notin DOMAIN activeBoots
        /\ frame[p].req.id \in DOMAIN failedRequest

\* C17: a GetBootstrapData request that lists no control card and whose chassis
\* the EntityManager resolves (the fixed-chassis case) has the chassis-level
\* bootstrap data fetched (the EntityManager's GetBootstrapData with no card)
\* and appended to the accumulated responses.
C17_FixedChassisFetched ==
    \A p \in Procs :
        LET req == frame[p].req
            call == EMCall("GetBootstrapData", ReqLookup(req), NoCard)
            bootdata == EM_GetBootstrapData(chassisInventory, ReqLookup(req), NoCard) IN
        (/\ Returned(p, "GetBootstrapData")
         /\ Len(req.ControlCards) = 0
         /\ EM_ResolveChassis(chassisInventory, ReqLookup(req), "").err = NoErr) =>
            /\ \E k \in 1..Len(frame[p].emLog) : frame[p].emLog[k] = call
            /\ frame[p].responses = <<bootdata.resp>>

\* the request reaches the call of Sign, and Sign fails
SignFails(req) ==
    /\ req.Nonce # ""
    /\ AllCardsFetched(req)
    /\ EM_Sign(chassisInventory,
               [NilEnvelope EXCEPT !.nil = FALSE, !.Nonce = req.Nonce,
                   !.Responses = [k \in 1..Len(req.ControlCards) |->
                                     CardFetch(req, req.ControlCards[k]).resp]],
               ReqLookup(req), req.ControlCardState).err # NoErr

\* C18: when Sign fails in a GetBootstrapData with a nonce, the call returns
\* Internal and no response, while what the call has written to the ledger
\* stays: the chassis is connected and every listed card has the boot log of
\* this request with the response fetched for it.
C18_SignFailureKeepsLedger ==
    \A p \in Procs :
        LET req == frame[p].req IN
        (Returned(p, "GetBootstrapData") /\ SignFails(req)) =>
            /\ frame[p].ret.err = Internal
            /\ frame[p].ret.env.nil
            /\ ReqLookup(req) \in connectedChassis
            /\ failedRequest = frame[p].pre.failedRequest
            /\ \A k \in 1..Len(req.ControlCards) :
                  /\ req.ControlCards[k] \in DOMAIN activeBoots
                  /\ activeBoots[req.ControlCards[k]].BootRequest = req.id
                  /\ activeBoots[req.ControlCards[k]].Err = NoErr
                  /\ activeBoots[req.ControlCards[k]].BootResponse =
                         CardFetch(req, req.ControlCards[k]).resp

\* a request with a nonce and no control card state, for two cards of a
\* chassis that was not connected before, has returned Internal
C18_Witness ==
    \E p \in Procs :
        /\ Returned(p, "GetBootstrapData")
        /\ SignFails(frame[p].req)
        /\ frame[p].req.ControlCardState = ""
        /\ Len(frame[p].req.ControlCards) = 2
        /\ ReqLookup(frame[p].req) \notin frame[p].pre.connectedChassis
        /\ frame[p].ret.err = Internal
        /\ ~activeBoots[frame[p].req.ControlCards[2]].BootResponse.nil

\* C19: GetBootStatus(serial) returns an error exactly when activeBoots has no
\* entry for the serial; otherwise it returns the boot log of the serial as it
\* stands; either way the ledger is as the call found it, with no entry
\* created.
C19_BootStatusLookup ==
    \A p \in Procs :
        LET serial == frame[p].serial IN
        Returned(p, "GetBootStatus") =>
            /\ (frame[p].ret.err # NoErr) <=> (serial \notin DOMAIN activeBoots)
            /\ serial \in DOMAIN activeBoots => frame[p].ret.log = activeBoots[serial]
            /\ ledger = frame[p].pre

\* GetBootStatus has returned the boot log of a card whose status was reported
C19_Witness ==
    \E p \in Procs :
        /\ Returned(p, "GetBootStatus")
        /\ frame[p].serial \in DOMAIN activeBoots
        /\ frame[p].ret.err = NoErr
        /\ frame[p].ret.log.BootRequest # 0
        /\ frame[p].ret.log.Status # <<>>
        /\ \E t \in CardSerials : t \notin DOMAIN activeBoots

(***************************************************************************)
(* The EntityManager's Sign called on its own, as TestSign calls it         *)
(* (service.go:507-594), and the verification TestSign makes of the result. *)
(***************************************************************************)
\* the per-card responses of the envelopes handed to Sign
SignResponses == {BootstrapDataResponse(c, "", "") : c \in {"123A", "123B"}}

\* the envelopes handed to Sign; one without responses has no signed response
\* at all, and so no nonce
SignEnvelopes ==
    {[NilEnvelope EXCEPT !.nil = FALSE, !.Responses = rs, !.Nonce = n] :
        rs \in SeqsUpTo(SignResponses, MaxCards), n \in Nonces} \
    {[NilEnvelope EXCEPT !.nil = FALSE, !.Nonce = n] : n \in Nonces \ {""}}

\* line 549: em.Sign(test.resp, &test.chassis, test.serial); the envelope
\* handed in is kept in req.Nonce and responses, the one Sign leaves in ret.env
Sign_Call(p) ==
    /\ pc[p] = "idle"
    /\ \E resp \in SignEnvelopes, lookup \in Lookups, serial \in CardSerials :
          LET signed == EM_Sign(chassisInventory, resp, lookup, serial) IN
          frame' = [frame EXCEPT ![p] =
              [IdleFrame EXCEPT !.op = "Sign", !.chassis = lookup, !.serial = serial,
                                !.req = [NoRequest EXCEPT !.Nonce = resp.Nonce],
                                !.responses = resp.Responses,
                                !.emLog = <<EMCall("Sign", lookup, serial)>>,
                                !.ret = [NoReturn EXCEPT !.err = signed.err, !.env = signed.resp]]]
    /\ pc' = [pc EXCEPT ![p] = "signed"]
    /\ UNCHANGED <<server, host, lastStart, chassisInventory, mu, connectedChassis, activeBoots, failedRequest, reqSeq, fault>>

\* the caller is done with the result
Sign_Done(p) ==
    /\ pc[p] = "signed"
    /\ pc' = [pc EXCEPT ![p] = "idle"]
    /\ frame' = [frame EXCEPT ![p] = IdleFrame]
    /\ UNCHANGED <<server, host, lastStart, chassisInventory, mu, connectedChassis, activeBoots, failedRequest, reqSeq, fault>>

SignNext == \E p \in Procs : Sign_Call(p) \/ Sign_Done(p)

SignSpec == Init /\ [][SignNext]_vars

\* line 557: proto.Marshal(test.resp.GetSignedResponse())
Marshal(resp) == <<resp.Responses, resp.Nonce>>

\* lines 557-576: the signature of the response, decoded from base64, verifies
\* with the public half of the OC key over the digest of the marshalled signed
\* response
SignatureVerifies(resp) ==
    /\ resp.ResponseSignature # <<>>
    /\ VerifyPKCS1v15(PublicKey(OCKey), Sha256(Marshal(resp)),
                      Base64Decode(resp.ResponseSignature))

\* C20: when Sign has succeeded on a response with a signed payload, for a
\* control card serial that has a voucher on file, the signature of the
\* response verifies with the public key of the Ownership Certificate over the
\* serialized signed payload, the signed payload is the one handed in, the
\* attached Ownership Certificate is the configured one, and the attached
\* Ownership Voucher is the voucher on file for that serial (its bytes, the
\* file holding them as base64 text); and Sign fails on a response without
\* signed payload.
C20_SignRoundTrip ==
    \A p \in Procs :
        LET f == frame[p]
            out == f.ret.env
            ov == fetchOwnershipVoucher(chassisInventory, f.chassis, f.serial) IN
        pc[p] = "signed" =>
            /\ (f.responses # <<>> /\ ov.err = NoErr /\ f.ret.err = NoErr) =>
                   /\ SignatureVerifies(out)
                   /\ out.Responses = f.responses
                   /\ out.Nonce = f.req.Nonce
                   /\ out.OwnershipCertificate = OCCert
                   /\ out.OwnershipVoucher = Base64Decode(ov.ov)
            /\ f.responses = <<>> => f.ret.err # NoErr

\* Sign has succeeded on a response with two per-card responses and a nonce,
\* for card 123B of chassis {Cisco, 123}
C20_Witness ==
    \E p \in Procs :
        /\ pc[p] = "signed"
        /\ frame[p].chassis = EntityLookup("Cisco", "123")
        /\ frame[p].serial = "123B"
        /\ Len(frame[p].responses) = 2
        /\ frame[p].req.Nonce = "N1"
        /\ frame[p].ret.err = NoErr
        /\ SignatureVerifies(frame[p].ret.env)
        /\ frame[p].ret.env.OwnershipVoucher = "ov_123B"

(***************************************************************************)
(* The EntityManager called on its own, one call at a time, as its tests   *)
(* call it (service.go:596-802 and 1048-1109).                             *)
(***************************************************************************)
\* the lookups handed to the EntityManager: the manufacturer or the chassis
\* serial may be empty
EMLookups == {EntityLookup(m, s) : m \in Manufacturers \cup {""}, s \in ChassisSerials \cup {""}}

\* the reports handed to SetStatus
EMReports == SeqsUpTo([SerialNumber : CardSerials, Status : ReportedStatuses], MaxStates)

\* DeleteDevice that empties the inventory
DeleteDevice_All(inv, lookup) == <<>>

\* DeleteDevice: delete(m.chassisInventory, *lookup)
DeleteDevice(inv, lookup) == [l \in DOMAIN inv \ {lookup} |-> inv[l]]

\* no call of the EntityManager is under way
EMIdle == \A q \in Procs : pc[q] = "idle"

\* a call of the EntityManager has returned to caller p with locals f
EMReturn(p, f) ==
    /\ pc' = [pc EXCEPT ![p] = "em_done"]
    /\ frame' = [frame EXCEPT ![p] = f]
    /\ UNCHANGED <<server, host, lastStart, mu, connectedChassis, activeBoots, failedRequest, reqSeq, fault>>

\* line 641: em.SetStatus(test.input)
SetStatus_Call(p) ==
    /\ EMIdle
    /\ \E states \in EMReports :
          EMReturn(p, [IdleFrame EXCEPT !.op = "SetStatus", !.states = states,
                          !.ret = [NoReturn EXCEPT !.err = EM_SetStatus(chassisInventory, states)]])
    /\ UNCHANGED chassisInventory

\* line 793: em.GetBootstrapData(&lookup, test.input)
GetBootstrapData_Call(p) ==
    /\ EMIdle
    /\ \E lookup \in EMLookups, card \in CardSerials \cup {NoCard} :
          LET bootdata == EM_GetBootstrapData(chassisInventory, lookup, card) IN
          EMReturn(p, [IdleFrame EXCEPT !.op = "GetBootstrapData", !.chassis = lookup,
                          !.serial = card, !.responses = <<bootdata.resp>>,
                          !.ret = [NoReturn EXCEPT !.err = bootdata.err]])
    /\ UNCHANGED chassisInventory

\* line 1102: em.DeleteDevice(&lookup)
DeleteDevice_Call(p) ==
    /\ EMIdle
    /\ \E lookup \in EMLookups :
          /\ chassisInventory' = DeleteDevice(chassisInventory, lookup)
          /\ EMReturn(p, [IdleFrame EXCEPT !.op = "DeleteDevice", !.chassis = lookup])

\* the caller is done with the result
EM_Done(p) ==
    /\ pc[p] = "em_done"
    /\ pc' = [pc EXCEPT ![p] = "idle"]
    /\ frame' = [frame EXCEPT ![p] = IdleFrame]
    /\ UNCHANGED <<server, host, lastStart, chassisInventory, mu, connectedChassis, activeBoots, failedRequest, reqSeq, fault>>

EMNext ==
    \E p \in Procs :
        SetStatus_Call(p) \/ GetBootstrapData_Call(p) \/ DeleteDevice_Call(p) \/ EM_Done(p)

EMSpec == Init /\ [][EMNext]_vars

EMReturned(p, op) == pc[p] = "em_done" /\ frame[p].op = op

\* C21: SetStatus fails for a report without states, fails for a report with a
\* state whose serial no chassis of the inventory has as a control card, and
\* succeeds for a report with at least one state whose serials are all known.
C21_SetStatusOutcome ==
    \A p \in Procs :
        LET states == frame[p].states
            known(k) == KnownToEM(states[k].SerialNumber) IN
        EMReturned(p, "SetStatus") =>
            /\ Len(states) = 0 => frame[p].ret.err # NoErr
            /\ (\E k \in 1..Len(states) : ~known(k)) => frame[p].ret.err # NoErr
            /\ (Len(states) >= 1 /\ \A k \in 1..Len(states) : known(k)) => frame[p].ret.err = NoErr

\* SetStatus has failed for a report whose first serial is known and whose
\* second is not
C21_Witness ==
    \E p \in Procs :
        /\ EMReturned(p, "SetStatus")
        /\ Len(frame[p].states) = 2
        /\ KnownToEM(frame[p].states[1].SerialNumber)
        /\ ~KnownToEM(frame[p].states[2].SerialNumber)
        /\ frame[p].ret.err = NotFound

\* the chassis of the inventory a call of GetBootstrapData may answer for:
\* those of the lookup's manufacturer that hold the card, or without a card
\* the one the lookup names
AnswersFor(lookup, card) ==
    IF card = NoCard
    THEN {l \in DOMAIN chassisInventory : l = lookup}
    ELSE {l \in DOMAIN chassisInventory :
             /\ chassisInventory[l].Manufacturer = lookup.Manufacturer
             /\ \E k \in 1..Len(chassisInventory[l].ControllerCards) :
                    chassisInventory[l].ControllerCards[k].SerialNumber = card}

\* C22: the EntityManager's GetBootstrapData with a card succeeds exactly when
\* a chassis of the lookup's manufacturer holds a control card with that
\* serial, whatever the chassis serial of the lookup, and without a card
\* exactly when the lookup names a chassis of the inventory; a successful
\* response carries the card serial (the chassis serial when there is no
\* card) and the software image and bootloader password hash of that chassis;
\* a failed call returns no response.
C22_BootstrapDataOutcome ==
    \A p \in Procs :
        LET lookup == frame[p].chassis
            card == frame[p].serial
            resp == frame[p].responses[1] IN
        EMReturned(p, "GetBootstrapData") =>
            /\ (frame[p].ret.err = NoErr) <=> (AnswersFor(lookup, card) # {})
            /\ frame[p].ret.err = NoErr =>
                   /\ ~resp.nil
                   /\ resp.SerialNum = IF card = NoCard THEN lookup.SerialNumber ELSE card
                   /\ \E l \in AnswersFor(lookup, card) :
                          /\ resp.IntendedImage = chassisInventory[l].SoftwareImage
                          /\ resp.BootPasswordHash = chassisInventory[l].BootloaderPasswordHash
            /\ frame[p].ret.err # NoErr => resp.nil

\* the call for card 123A with a lookup that has the manufacturer Cisco and no
\* chassis serial has succeeded
C22_Witness ==
    \E p \in Procs :
        /\ EMReturned(p, "GetBootstrapData")
        /\ frame[p].chassis = EntityLookup("Cisco", "")
        /\ frame[p].serial = "123A"
        /\ frame[p].ret.err = NoErr
        /\ frame[p].responses[1].SerialNum = "123A"
        /\ frame[p].responses[1].IntendedImage = "Default Image"

\* a call of DeleteDevice by caller p
Deletes(p) == pc[p] = "idle" /\ pc'[p] = "em_done" /\ frame'[p].op = "DeleteDevice"

\* C24: DeleteDevice(lookup) removes the inventory entry keyed by lookup and
\* no other, and leaves every other entry as it was; when no entry is keyed by
\* lookup the inventory is unchanged.
C24_DeleteExactlyOne ==
    [][\A p \in Procs :
          Deletes(p) =>
              /\ DOMAIN chassisInventory' = DOMAIN chassisInventory \ {frame'[p].chassis}
              /\ \A l \in DOMAIN chassisInventory' : chassisInventory'[l] = chassisInventory[l]
              /\ frame'[p].chassis \notin DOMAIN chassisInventory =>
                     chassisInventory' = chassisInventory]_vars

\* chassis {Cisco, 123} has been deleted and chassis {Acme, 456} is still in
\* the inventory
C24_Witness ==
    \E p \in Procs :
        /\ EMReturned(p, "DeleteDevice")
        /\ frame[p].chassis = EntityLookup("Cisco", "123")
        /\ DOMAIN chassisInventory = {EntityLookup("Acme", "456")}
        /\ chassisInventory[EntityLookup("Acme", "456")] = TestInventory[EntityLookup("Acme", "456")]

(***************************************************************************)
(* parseSecurityArtifacts called on an artifact directory.                  *)
(***************************************************************************)
\* the call of parseSecurityArtifacts on some artifact directory
Parse_Call(p) ==
    /\ \A q \in Procs : pc[q] = "idle"
    /\ \E dir \in ArtifactDirs :
          frame' = [frame EXCEPT ![p] =
              [op |-> "parseSecurityArtifacts", dir |-> dir, ret |-> parseSecurityArtifacts(dir)]]
    /\ pc' = [pc EXCEPT ![p] = "parse_done"]
    /\ UNCHANGED <<server, host, lastStart, chassisInventory, mu, connectedChassis, activeBoots, failedRequest, reqSeq, fault>>

Parse_Done(p) ==
    /\ pc[p] = "parse_done"
    /\ pc' = [pc EXCEPT ![p] = "idle"]
    /\ frame' = [frame EXCEPT ![p] = IdleFrame]
    /\ UNCHANGED <<server, host, lastStart, chassisInventory, mu, connectedChassis, activeBoots, failedRequest, reqSeq, fault>>

ArtifactNext == \E p \in Procs : Parse_Call(p) \/ Parse_Done(p)

ArtifactSpec == Init /\ [][ArtifactNext]_vars

\* both files of a keypair are in the directory
KeypairPresent(dir, name) ==
    dir.files[PubFile(name)] # "absent" /\ dir.files[PrivFile(name)] # "absent"

\* C23: parseSecurityArtifacts returns an error whenever the OC, the PDC or
\* the Vendor CA keypair is absent, no Ownership Voucher is in the directory,
\* or the PDC does not make a TLS certificate; and when it returns no error
\* the five fields OC, PDC, VendorCA, OV and TLSKeypair are all populated.
C23_ArtifactsRequired ==
    \A p \in Procs :
        LET dir == frame[p].dir
            ret == frame[p].ret IN
        pc[p] = "parse_done" =>
            /\ (\E n \in KeypairNames : ~KeypairPresent(dir, n)) => ret.err # NoErr
            /\ (\A f \in OVFiles : dir.files[f] = "absent") => ret.err # NoErr
            /\ (dir.files["pdc_pub.pem"] # "pem" \/ dir.files["pdc_priv.pem"] # "pem") =>
                   ret.err # NoErr
            /\ ret.err # NoErr => ret.artifacts.nil
            /\ ret.err = NoErr =>
                   /\ ~ret.artifacts.nil
                   /\ \A k \in {"OC", "PDC", "VendorCA"} :
                          /\ ~ret.artifacts[k].nil
                          /\ ret.artifacts[k].Cert # <<>>
                          /\ ret.artifacts[k].Key # <<>>
                   /\ DOMAIN ret.artifacts.OV # {}
                   /\ ~ret.artifacts.TLSKeypair.nil

\* the artifacts have been parsed from a directory that holds the three
\* keypairs and one of the two vouchers
C23_Witness ==
    \E p \in Procs :
        /\ pc[p] = "parse_done"
        /\ frame[p].ret.err = NoErr
        /\ frame[p].dir.files["ov_123A.txt"] = "absent"
        /\ DOMAIN frame[p].ret.artifacts.OV = {"123B"}
        /\ frame[p].ret.artifacts.OC.Cert = <<"oc_pub.pem", "pem">>
        /\ ~frame[p].ret.artifacts.TLSKeypair.nil

\* C25: a GetBootstrapData that has reached the loop over the listed cards
\* leaves every listed card with a fresh boot log: the boot mode of the
\* resolved chassis, LastStatus UNSPECIFIED, an empty status history, no end
\* timestamp and the request of this call, whatever history and end timestamp
\* earlier calls had recorded for that serial.
C25_FreshBootLog ==
    \A p \in Procs :
        LET req == frame[p].req IN
        (Returned(p, "GetBootstrapData") /\ ReqReachesCards(req)) =>
            \A k \in 1..Len(req.ControlCards) :
                LET log == activeBoots[req.ControlCards[k]] IN
                /\ log.BootMode = ReqBootMode(req)
                /\ log.StartTimeStamp = TimeNow
                /\ log.LastStatus = UNSPECIFIED
                /\ log.Status = <<>>
                /\ log.EndTimeStamp = 0
                /\ log.BootRequest = req.id

\* a GetBootstrapData has returned for a card whose earlier boot log had been
\* reported INITIALIZED and had its end timestamp
C25_Witness ==
    \E p \in Procs : \E k \in 1..Len(frame[p].req.ControlCards) :
        LET card == frame[p].req.ControlCards[k] IN
        /\ Returned(p, "GetBootstrapData")
        /\ ReqReachesCards(frame[p].req)
        /\ card \in DOMAIN frame[p].pre.activeBoots
        /\ frame[p].pre.activeBoots[card].LastStatus = INITIALIZED
        /\ frame[p].pre.activeBoots[card].EndTimeStamp # 0
        /\ activeBoots[card].Status = <<>>
        /\ activeBoots[card].BootRequest = frame[p].req.id

\* C26: connectedChassis holds exactly the lookups whose chassis a
\* GetBootstrapData has resolved since the last ResetStatus: it is emptied by
\* the clearing step of ResetStatus, gains the lookup of a request at the
\* step in which its chassis resolves, and is otherwise left alone; so the
\* lookup of a request whose chassis resolves is connected when the call
\* returns, also when the call was refused for its boot mode or failed on a
\* card or on signing.
C26_ConnectedExactlyResolved ==
    /\ [](\A p \in Procs :
            (Returned(p, "GetBootstrapData") /\ ReqResolves(frame[p].req)) =>
                ReqLookup(frame[p].req) \in connectedChassis)
    /\ [][connectedChassis' =
              IF ResetClears THEN {}
              ELSE connectedChassis \cup {L \in Lookups : ResolvesFor(L)}]_vars

\* a request without nonce for a SECURE chassis that was not connected before
\* has been refused, and its chassis is connected
C26_Witness ==
    \E p \in Procs :
        /\ Returned(p, "GetBootstrapData")
        /\ ReqResolves(frame[p].req)
        /\ ReqBootMode(frame[p].req) = SECURE
        /\ frame[p].ret.err = InvalidArgument
        /\ frame[p].pre.connectedChassis # {}
        /\ ReqLookup(frame[p].req) \notin frame[p].pre.connectedChassis
        /\ ReqLookup(frame[p].req) \in connectedChassis

\* C27: ReportStatus reads and updates only boot logs that exist: no report
\* makes it write through the missing boot log of a serial, so no caller ever
\* panics.
C27_NoMissingEntryAccess ==
    /\ ~fault
    /\ \A p \in Procs : pc[p] # "panicked"

\* C28: in every state, the LastStatus of every boot log is UNSPECIFIED when
\* its status history is empty and the last element of the history otherwise.
C28_LastStatusIsLast ==
    \A s \in DOMAIN activeBoots :
        LET log == activeBoots[s] IN
        log.LastStatus = IF log.Status = <<>> THEN UNSPECIFIED ELSE log.Status[Len(log.Status)]

\* a boot log holds two reported statuses, the last differing from the first
C28_Witness ==
    \E s \in DOMAIN activeBoots :
        /\ Len(activeBoots[s].Status) = 2
        /\ activeBoots[s].Status[1] # activeBoots[s].Status[2]
        /\ activeBoots[s].LastStatus = activeBoots[s].Status[2]

\* the chassis of the inventory a request is resolved to
ResolvedChassis(req) ==
    CHOOSE l \in lookupChassis(chassisInventory, ReqLookup(req), req.ControlCards[1]) : TRUE

\* the chassis a boot log was created for, known by the boot mode the log
\* copied from it (lines 145-146); the chassis of the inventory differ in it
CreatedFor(log) == {l \in DOMAIN chassisInventory : chassisInventory[l].BootMode = log.BootMode}

\* C30: a GetBootstrapData never overwrites a boot log that a request for
\* another chassis has created: every boot log a call finds for one of its
\* cards was created for the chassis the call is resolved to, also when two
\* chassis have control cards with the same serial.
C30_NoCrossChassisOverwrite ==
    \A p \in Procs :
        LET req == frame[p].req IN
        (Returned(p, "GetBootstrapData") /\ ReqReachesCards(req)) =>
            \A k \in 1..Len(req.ControlCards) :
                req.ControlCards[k] \in DOMAIN frame[p].pre.activeBoots =>
                    ResolvedChassis(req) \in CreatedFor(frame[p].pre.activeBoots[req.ControlCards[k]])


(***************************************************************************)
(* Termination.  A handler that holds the mutex runs on its own goroutine  *)
(* and never waits for anything but the EntityManager, so the scheduler    *)
(* lets it take its next step: weak fairness on the steps that follow an   *)
(* operation's Lock.  Whether an operation is invoked at all is up to the  *)
(* callers, so the Lock steps carry no fairness.                           *)
(***************************************************************************)
Proceed(p) ==
    \/ GBD_Validate(p) \/ GBD_Card(p) \/ GBD_Finish(p)
    \/ RS_SetStatus(p) \/ RS_Apply(p) \/ RS_Return(p)
    \/ ICC_Read(p)
    \/ Reset_Connected(p) \/ Reset_Failed(p) \/ Reset_Boots(p)
    \/ GBS_Read(p)
    \/ Unlock(p)

FairSpec == Spec /\ \A p \in Procs : WF_vars(Proceed(p))

\* an invoked operation has completed when its caller is back from the call
Invoked(p) == pc[p] # "idle"
Completed(p) == pc[p] = "idle"

\* C29: every invoked operation eventually completes and releases the
\* mutex, on every path, so that a caller waiting for the mutex can take it.
C29_EveryOperationCompletes ==
    \A p \in Procs : Invoked(p) ~> (Completed(p) /\ MuAvailable)


(***************************************************************************)
(* server.Start, Stop, Reload and Status (part_000:159-231).  main is the  *)
(* only owner of the server object, so one operation is called at a time.  *)
(***************************************************************************)
ServerConfigs ==
    [DhcpIntf : {""}, ArtifactDirectory : {"", "../testdata/"},
     InventoryConfig : {"", InventoryFile}]

\* the addresses Start is given: none, a port, an ip without a port (as main
\* does, line 304), and the ip:port strings a listener reports
Addresses == {"", "8008", "8009", "127.0.0.1", "127.0.0.1:8008", "127.0.0.1:8009"}

\* strings.Split(addr, ":")
Split(addr) ==
    CASE addr = "127.0.0.1:8008" -> <<"127.0.0.1", "8008">>
      [] addr = "127.0.0.1:8009" -> <<"127.0.0.1", "8009">>
      [] OTHER -> <<addr>>

\* fmt.Sprintf("localhost:%v", addr)
SprintfLocalhost(addr) ==
    CASE addr = "8008" -> "localhost:8008"
      [] addr = "8009" -> "localhost:8009"
      [] addr = "127.0.0.1" -> "localhost:127.0.0.1"
      [] OTHER -> "localhost:"

\* lines 69-76
convertAddress(addr) ==
    IF Len(Split(addr)) = 1 THEN SprintfLocalhost(addr) ELSE addr

ListenError == "ListenError"

\* the TCP address a host:port string names, "" when it names none
ResolveTCPAddr(address) ==
    CASE address \in {"localhost:8008", "127.0.0.1:8008"} -> "127.0.0.1:8008"
      [] address \in {"localhost:8009", "127.0.0.1:8009"} -> "127.0.0.1:8009"
      [] OTHER -> ""

\* net.Listen("tcp", address) on host h: fails on an address that names no
\* port and on one that is listened on already
Listen(h, address) ==
    LET a == ResolveTCPAddr(address) IN
    IF a = "" \/ a \in h.listening
    THEN [err |-> ListenError, lis |-> NilLis]
    ELSE [err |-> NoErr, lis |-> [nil |-> FALSE, addr |-> a]]

\* lines 180-183: entitymanager.New fails when the inventory file cannot be
\* loaded
NewEntityManagerFails(h, inventoryConfig) == inventoryConfig \notin h.inventoryFiles

\* line 188: the trust pool takes a certificate in PEM
AppendCertsFromPEM(cert) == cert[2] = "pem"

\* a Start that leaves the status as it finds it
StatusOnEntry_Kept(status) == status

\* line 163
StatusOnEntry(status) == "Failure"

\* lines 159-212: what Start(bootzAddress, config) makes of server srv on
\* host h; exit is log.Exitf ending the process.  The artifacts are read
\* from the directory of the -artifact_dir flag, whatever config names.
Start(srv, h, bootzAddress, config) ==
    LET entered == [srv EXCEPT !.status = StatusOnEntry(srv.status)]
        failure(e) == [exit |-> FALSE, err |-> e, server |-> entered, host |-> h]
        sa == parseSecurityArtifacts(h.artifactDir)
        l == Listen(h, convertAddress(bootzAddress)) IN
    IF config.ArtifactDirectory = "" THEN failure("NoArtifactDirectory")
    ELSE IF bootzAddress = "" THEN [failure("Exit") EXCEPT !.exit = TRUE]
    ELSE IF sa.err # NoErr THEN failure(sa.err)
    ELSE IF NewEntityManagerFails(h, config.InventoryConfig) THEN failure("InventoryError")
    ELSE IF ~AppendCertsFromPEM(sa.artifacts.PDC.Cert) THEN failure("TrustPoolError")
    ELSE IF l.err # NoErr THEN failure(l.err)
    ELSE [exit |-> FALSE, err |-> NoErr,
          server |-> [entered EXCEPT !.status = "Running",
                                     !.serv = [nil |-> FALSE, stopped |-> FALSE],
                                     !.lis = l.lis],
          host |-> [h EXCEPT !.listening = @ \cup {l.lis.addr}]]

\* lines 214-220: GracefulStop through a nil *grpc.Server panics; the server
\* was never handed the listener (Start calls no Serve), so stopping it
\* closes no listener
Stop(srv) ==
    IF srv.serv.nil
    THEN [panic |-> TRUE, server |-> srv]
    ELSE [panic |-> FALSE,
          server |-> [srv EXCEPT !.serv.stopped = TRUE, !.status = "Exited"]]


\* the locals of a call on the server: the operation called, the call it is
\* in (stage), the arguments of Start, the status and the host the call
\* found, and what the innermost call has returned
SrvFrame(op) ==
    [op |-> op, stage |-> "", addr |-> "", config |-> ZeroConfig, was |-> server.status,
     pre |-> host, ret |-> [status |-> "", err |-> NoErr]]

SrvIdle == ~fault /\ \A q \in Procs : pc[q] = "idle"

serviceVars ==
    <<chassisInventory, mu, connectedChassis, activeBoots, failedRequest, reqSeq>>

\* the directories the -artifact_dir flag may lead to: the shipped one, one
\* without vouchers, one whose PDC key is no PEM
HostDirs ==
    {TestdataDir,
     [TestdataDir EXCEPT !.files["ov_123A.txt"] = "absent", !.files["ov_123B.txt"] = "absent"],
     [TestdataDir EXCEPT !.files["pdc_priv.pem"] = "garbage"]}

\* the files on disk change between two calls
Host_Write ==
    /\ SrvIdle
    /\ \E dir \in HostDirs, inv \in SUBSET {InventoryFile} :
          host' = [host EXCEPT !.artifactDir = dir, !.inventoryFiles = inv]
    /\ host' # host
    /\ UNCHANGED <<serviceVars, pc, frame, fault, server, lastStart>>

\* a listener the server no longer refers to is closed by its finalizer
Host_Finalize ==
    /\ ~fault
    /\ \E a \in host.listening :
          /\ server.lis.nil \/ server.lis.addr # a
          /\ host' = [host EXCEPT !.listening = @ \ {a}]
    /\ UNCHANGED <<serviceVars, pc, frame, fault, server, lastStart>>

\* main or a caller of its server calls s.Start(bootzAddress, config)
Start_Call(p) ==
    /\ SrvIdle
    /\ \E bootzAddress \in Addresses, config \in ServerConfigs :
          frame' = [frame EXCEPT ![p] =
              [SrvFrame("Start") EXCEPT !.stage = "start", !.addr = bootzAddress,
                                        !.config = config]]
    /\ pc' = [pc EXCEPT ![p] = "start_lock"]
    /\ UNCHANGED <<serviceVars, fault, server, host, lastStart>>

\* line 160
Start_Lock(p) ==
    /\ pc[p] = "start_lock"
    /\ ~fault
    /\ ~server.lock
    /\ server' = [server EXCEPT !.lock = TRUE]
    /\ pc' = [pc EXCEPT ![p] = "start_run"]
    /\ UNCHANGED <<serviceVars, frame, fault, host, lastStart>>

\* lines 163-210: the body of Start up to its return, or to log.Exitf
Start_Run(p) ==
    /\ pc[p] = "start_run"
    /\ ~fault
    /\ LET r == Start(server, host, frame[p].addr, frame[p].config) IN
       /\ server' = r.server
       /\ host' = r.host
       /\ frame' = [frame EXCEPT ![p].pre = host,
                                 ![p].ret = [status |-> r.server.status, err |-> r.err]]
       /\ lastStart' = IF r.err = NoErr
                       THEN [addr |-> frame[p].addr, config |-> frame[p].config]
                       ELSE lastStart
       /\ fault' = r.exit
       /\ pc' = [pc EXCEPT ![p] = IF r.exit THEN "exited" ELSE "srv_unlock"]
    /\ UNCHANGED serviceVars

\* s.Stop() is called
Stop_Call(p) ==
    /\ SrvIdle
    /\ frame' = [frame EXCEPT ![p] = [SrvFrame("Stop") EXCEPT !.stage = "stop"]]
    /\ pc' = [pc EXCEPT ![p] = "stop_lock"]
    /\ UNCHANGED <<serviceVars, fault, server, host, lastStart>>

\* line 215
Stop_Lock(p) ==
    /\ pc[p] = "stop_lock"
    /\ ~fault
    /\ ~server.lock
    /\ server' = [server EXCEPT !.lock = TRUE]
    /\ pc' = [pc EXCEPT ![p] = "stop_run"]
    /\ UNCHANGED <<serviceVars, frame, fault, host, lastStart>>

\* lines 217-219; a panic unwinds through the deferred Unlock
Stop_Run(p) ==
    /\ pc[p] = "stop_run"
    /\ ~fault
    /\ LET r == Stop(server) IN
       IF r.panic
       THEN /\ server' = [server EXCEPT !.lock = FALSE]
            /\ fault' = TRUE
            /\ pc' = [pc EXCEPT ![p] = "panicked"]
            /\ frame' = [frame EXCEPT ![p].ret = [status |-> "", err |-> Panic]]
       ELSE /\ server' = r.server
            /\ pc' = [pc EXCEPT ![p] = "srv_unlock"]
            /\ frame' = [frame EXCEPT ![p].ret = [status |-> r.server.status, err |-> NoErr]]
            /\ UNCHANGED fault
    /\ UNCHANGED <<serviceVars, host, lastStart>>

\* the deferred s.lock.Unlock() of Start and of Stop (lines 161, 216); a
\* Reload goes on with its next statement
Srv_Unlock(p) ==
    /\ pc[p] = "srv_unlock"
    /\ ~fault
    /\ server' = [server EXCEPT !.lock = FALSE]
    /\ pc' = [pc EXCEPT ![p] =
                 IF frame[p].op # "Reload" THEN "srv_done"
                 ELSE IF frame[p].stage = "stop" THEN "reload_start"
                 ELSE "reload_return"]
    /\ UNCHANGED <<serviceVars, frame, fault, host, lastStart>>

\* line 223: the address of the listener; a nil listener panics
Reload_Call(p) ==
    /\ SrvIdle
    /\ IF server.lis.nil
       THEN /\ fault' = TRUE
            /\ pc' = [pc EXCEPT ![p] = "panicked"]
            /\ frame' = [frame EXCEPT ![p] =
                            [SrvFrame("Reload") EXCEPT !.ret = [status |-> "", err |-> Panic]]]
       ELSE /\ frame' = [frame EXCEPT ![p] =
                            [SrvFrame("Reload") EXCEPT !.stage = "stop",
                                                       !.addr = server.lis.addr]]
            /\ pc' = [pc EXCEPT ![p] = "stop_lock"]
            /\ UNCHANGED fault
    /\ UNCHANGED <<serviceVars, server, host, lastStart>>

\* line 225: s.Start(addr, s.config)
Reload_Start(p) ==
    /\ pc[p] = "reload_start"
    /\ ~fault
    /\ frame' = [frame EXCEPT ![p].stage = "start", ![p].config = server.config]
    /\ pc' = [pc EXCEPT ![p] = "start_lock"]
    /\ UNCHANGED <<serviceVars, fault, server, host, lastStart>>

\* line 226: return s.status, err
Reload_Return(p) ==
    /\ pc[p] = "reload_return"
    /\ ~fault
    /\ frame' = [frame EXCEPT ![p].stage = "",
                              ![p].ret = [status |-> server.status, err |-> frame[p].ret.err]]
    /\ pc' = [pc EXCEPT ![p] = "srv_done"]
    /\ UNCHANGED <<serviceVars, fault, server, host, lastStart>>

\* lines 229-231
Status_Call(p) ==
    /\ SrvIdle
    /\ frame' = [frame EXCEPT ![p] =
                    [SrvFrame("Status") EXCEPT !.ret = [status |-> server.status, err |-> NoErr]]]
    /\ pc' = [pc EXCEPT ![p] = "srv_done"]
    /\ UNCHANGED <<serviceVars, fault, server, host, lastStart>>

\* the caller has its results
Srv_Done(p) ==
    /\ pc[p] = "srv_done"
    /\ ~fault
    /\ pc' = [pc EXCEPT ![p] = "idle"]
    /\ frame' = [frame EXCEPT ![p] = IdleFrame]
    /\ UNCHANGED <<serviceVars, fault, server, host, lastStart>>

ServerNext ==
    \/ Host_Write
    \/ Host_Finalize
    \/ \E p \in Procs :
          \/ Start_Call(p) \/ Start_Lock(p) \/ Start_Run(p)
          \/ Stop_Call(p) \/ Stop_Lock(p) \/ Stop_Run(p)
          \/ Reload_Call(p) \/ Reload_Start(p) \/ Reload_Return(p)
          \/ Status_Call(p)
          \/ Srv_Unlock(p) \/ Srv_Done(p)

ServerSpec == Init /\ [][ServerNext]_vars

\* Start has returned to its caller (to Reload, when Reload called it) and
\* its deferred Unlock is next
StartReturned(p) == pc[p] = "srv_unlock" /\ frame[p].stage = "start"

\* C31: when Start returns, the status is "Running" if and only if it
\* returned no error, and "Failure" otherwise; Start returns an error
\* whenever no artifact directory is configured, the artifacts do not parse,
\* the inventory does not load, the PDC certificate does not enter the trust
\* pool, or the address cannot be listened on.
C31_RunningIffNoError ==
    \A p \in Procs :
        LET f == frame[p]
            sa == parseSecurityArtifacts(f.pre.artifactDir) IN
        StartReturned(p) =>
            /\ f.ret.status = server.status
            /\ (server.status = "Running") <=> (f.ret.err = NoErr)
            /\ f.ret.err # NoErr => server.status = "Failure"
            /\ f.config.ArtifactDirectory = "" => f.ret.err # NoErr
            /\ sa.err # NoErr => f.ret.err # NoErr
            /\ f.config.InventoryConfig \notin f.pre.inventoryFiles => f.ret.err # NoErr
            /\ (sa.err = NoErr /\ sa.artifacts.PDC.Cert[2] # "pem") => f.ret.err # NoErr
            /\ ResolveTCPAddr(convertAddress(f.addr)) \in f.pre.listening \cup {""} =>
                   f.ret.err # NoErr

\* a Start on the address a Running server listens on has failed to listen
\* and has left the status "Failure"
C31_Witness ==
    \E p \in Procs :
        /\ StartReturned(p)
        /\ frame[p].op = "Start"
        /\ frame[p].was = "Running"
        /\ frame[p].ret.err = ListenError
        /\ server.status = "Failure"


\* Stop has returned to its caller and its deferred Unlock is next
StopReturned(p) == pc[p] = "srv_unlock" /\ frame[p].stage = "stop"

\* C32: Stop completes, returning no error and leaving the status "Exited",
\* on every server it is called on: never started, started and failed,
\* running, or stopped before.
C32_StopCompletes ==
    \A p \in Procs :
        /\ frame[p].op = "Stop" => pc[p] # "panicked"
        /\ (StopReturned(p) /\ frame[p].op = "Stop") =>
               /\ server.status = "Exited"
               /\ frame[p].ret = [status |-> "Exited", err |-> NoErr]

\* Reload has returned to its caller
ReloadReturned(p) == pc[p] = "srv_done" /\ frame[p].op = "Reload"

\* a Start with these arguments succeeds on host h once the address the
\* server listened on is free again
WouldStart(h, addr, config) ==
    LET freed == [h EXCEPT !.listening = @ \ {ResolveTCPAddr(convertAddress(addr))}] IN
    Start(ZeroServer, freed, addr, config).err = NoErr

\* C33: a Reload of a Running server leaves it "Running", and returns no
\* error, whenever a Start on the address it listened on, with the
\* configuration it was started with, would succeed.
C33_ReloadRestarts ==
    \A p \in Procs :
        (/\ ReloadReturned(p)
         /\ frame[p].was = "Running"
         /\ WouldStart(frame[p].pre, frame[p].addr, lastStart.config)) =>
            /\ server.status = "Running"
            /\ frame[p].ret.err = NoErr

====
